---- MODULE Spec2Model ----
(***************************************************************************)
(* A model of hello_world.py: three imaging subjects are constructed, a    *)
(* two-stage transform pipeline is composed, the subjects are wrapped in a *)
(* dataset and a multi-process loader, and one epoch is iterated.          *)
(*                                                                         *)
(* The script is the main process (pc); the loader's worker processes run  *)
(* concurrently with it.  Library calls are modelled by what the call      *)
(* written in the script does with the arguments the script passes.        *)
(*                                                                         *)
(* Abstractions: an image's voxel data is a short sequence of fixed-point  *)
(* values; a spatial resampling is a reversal of the voxel order; a uniform*)
(* random draw is the percentile it falls in.                              *)
(***************************************************************************)
EXTENDS Integers, Sequences, FiniteSets, TLC

VARIABLES
    pc,                   \* the statement the main process is at
    env,                  \* the script's module namespace: name -> value
    it,                   \* the loader's iterator object (main process)
    worker_result_queue,  \* worker -> main queue of (idx, data | exception)
    worker,               \* each worker process's local state
    log,                  \* the statements the main process has run, in order
    raised,               \* the statement at which an error surfaced
    reads,                \* the batch fields the loop body has read
    delivered,            \* the image paths of every batch handed to the loop
    iterations,           \* how many times the loop body has been entered
    draw,                 \* sampling run: the next pair of percentiles to draw
    tally                 \* sampling run: how often each outcome has occurred

vars == <<pc, env, it, worker_result_queue, worker, log, raised, reads,
          delivered, iterations, draw, tally>>

----------------------------------------------------------------------------
\* Bounds of the model.

\* The largest raw voxel value an image file or a random tensor may hold.
MaxVal == 2

\* Program constants.
batch_size == 4
num_workers == 4
WeightAffine == 80
WeightElastic == 20
p_percent == 75
Percent == 100

----------------------------------------------------------------------------
\* Voxel values are fixed-point numbers: Scale units make 1.  Scale is a
\* multiple of every denominator the model's values have.
Scale == 2 * (MaxVal + 1)

Min(data) == CHOOSE x \in {data[i] : i \in DOMAIN data} :
                 \A j \in DOMAIN data : x <= data[j]
Max(data) == CHOOSE x \in {data[i] : i \in DOMAIN data} :
                 \A j \in DOMAIN data : x >= data[j]

Reverse(s) == [i \in DOMAIN s |-> s[Len(s) + 1 - i]]

----------------------------------------------------------------------------
\* The inputs of the script: what an image file may hold, and what
\* torch.rand may return.

\* A file's voxels: 1 and v, for v in 0 .. MaxVal.
FileData == {<<Scale, v * Scale>> : v \in 0..MaxVal}

\* torch.rand's voxels, in [0, 1): 1/2 and v / (MaxVal + 1).
RandData == {<<Scale \div 2, v * 2>> : v \in 0..MaxVal}

----------------------------------------------------------------------------
\* Images and subjects.

INTENSITY == "intensity"
LABEL == "label"

\* tio.ScalarImage(path) / tio.LabelMap(path): the data is read lazily.
ImageFromPath(type, path) ==
    [type |-> type, path |-> path, loaded |-> FALSE, data |-> <<>>]

\* tio.ScalarImage(tensor=...) / tio.LabelMap(tensor=...).
ImageFromTensor(type, tensor) ==
    [type |-> type, path |-> "", loaded |-> TRUE, data |-> tensor]

\* Mutant of Subject: the label map is not kept.
SubjectWithoutLabel(t1, label, diagnosis) ==
    [entries |-> [t1 |-> t1, diagnosis |-> diagnosis],
     applied_transforms |-> <<>>]

\* tio.Subject(**kwargs): the keyword arguments are the subject's entries.
Subject(t1, label, diagnosis) ==
    [entries |-> [t1 |-> t1, label |-> label, diagnosis |-> diagnosis],
     applied_transforms |-> <<>>]

\* tensor_4d > 0.5
GreaterThanHalf(tensor) ==
    [i \in DOMAIN tensor |->
        IF tensor[i] > Scale \div 2 THEN Scale ELSE 0]

ImageKeys == {"t1", "label"}

----------------------------------------------------------------------------
\* Transforms.

\* tio.RescaleIntensity(out_min_max=(0, 1)); p defaults to 1.
RescaleIntensity(out_min, out_max) ==
    [name |-> "RescaleIntensity", p |-> Percent,
     out_min_max |-> <<out_min * Scale, out_max * Scale>>]

\* tio.RandomAffine() and tio.RandomElasticDeformation(); p defaults to 1.
RandomAffine == [name |-> "RandomAffine", p |-> Percent]
RandomElasticDeformation == [name |-> "RandomElasticDeformation", p |-> Percent]

\* tio.OneOf({t1: w1, t2: w2}, p=...): the weights are normalised to sum to 1
\* (here: to Percent).
WeightSum(choices) ==
    LET RECURSIVE Sum(_)
        Sum(i) == IF i = 0 THEN 0 ELSE choices[i][2] + Sum(i - 1)
    IN Sum(Len(choices))

OneOf(choices, p) ==
    [name |-> "OneOf", p |-> p,
     transforms |-> [i \in DOMAIN choices |-> choices[i][1]],
     weights |-> [i \in DOMAIN choices |->
                     (choices[i][2] * Percent) \div WeightSum(choices)]]

\* Mutant of Compose: the list is taken back to front.
ComposeReversed(transforms) ==
    [name |-> "Compose", p |-> Percent, transforms |-> Reverse(transforms)]

\* tio.Compose(transforms): the transforms in the order of the list.
Compose(transforms) ==
    [name |-> "Compose", p |-> Percent, transforms |-> transforms]

\* Mutant of Skipped: the band that starts at p is taken as not above p.
SkippedOffByOne(u, p) == u > p

\* Transform.__call__ returns its input untouched when torch.rand(1) > p.
\* u is the percentile the draw falls in.
Skipped(u, p) == u >= p

\* torch.multinomial(weights, 1): the index whose weight interval holds v.
RECURSIVE Multinomial(_, _, _)
Multinomial(weights, v, i) ==
    IF i = Len(weights) \/ v < weights[i]
    THEN i
    ELSE Multinomial(weights, v - weights[i], i + 1)

\* RescaleIntensity on one tensor: linear map of [min, max] onto out_min_max;
\* a constant image is returned as it is.
Rescale(data, out_min_max) ==
    LET in_min == Min(data)
        in_range == Max(data) - Min(data)
        out_range == out_min_max[2] - out_min_max[1]
    IN IF in_range = 0
       THEN data
       ELSE [i \in DOMAIN data |->
                ((((data[i] - in_min) * Scale) \div in_range) * out_range)
                    \div Scale + out_min_max[1]]

\* Mutant of IntensityImages: label maps are rescaled too.
IntensityImagesAndLabels(subject) == ImageKeys \cap DOMAIN subject.entries

\* The images an intensity transform acts on: the scalar images only.
IntensityImages(subject) ==
    {k \in ImageKeys \cap DOMAIN subject.entries :
        subject.entries[k].type = INTENSITY}

\* The images a spatial transform acts on: every image of the subject.
AllImages(subject) == ImageKeys \cap DOMAIN subject.entries

\* The subject with the data of the images `keys` replaced by f(data), and
\* the transform recorded in the subject's history.
MapImages(subject, keys, F(_), name) ==
    [entries |->
        [k \in DOMAIN subject.entries |->
            IF k \in keys
            THEN [subject.entries[k] EXCEPT !.data = F(@)]
            ELSE subject.entries[k]],
     applied_transforms |-> Append(subject.applied_transforms, name)]

ApplyRescale(t, subject) ==
    LET F(data) == Rescale(data, t.out_min_max)
    IN MapImages(subject, IntensityImages(subject), F, t.name)

ApplySpatial(t, subject) ==
    MapImages(subject, AllImages(subject), Reverse, t.name)

\* Mutant of ApplyOneOf: every transform of the stage is applied in turn.
ApplyOneOfAll(t, subject, v) ==
    ApplySpatial(t.transforms[2], ApplySpatial(t.transforms[1], subject))

\* OneOf.apply_transform: one transform is drawn and applied.
ApplyOneOf(t, subject, v) ==
    ApplySpatial(t.transforms[Multinomial(t.weights, v, 1)], subject)

\* transform(subject) for one stage of the pipeline; u and v are the
\* percentiles of the stage's random draws.
ApplyTransform(t, subject, u, v) ==
    IF Skipped(u, t.p) THEN subject
    ELSE IF t.name = "RescaleIntensity" THEN ApplyRescale(t, subject)
    ELSE IF t.name = "OneOf" THEN ApplyOneOf(t, subject, v)
    ELSE ApplySpatial(t, subject)

\* The percentiles the model draws from: one per band of `step` percent.
Draws(step) == {k * step : k \in 0..((Percent \div step) - 1)}

----------------------------------------------------------------------------
\* The dataset and the loader.

\* tio.SubjectsDataset(subjects_list, transform=transform).
SubjectsDataset(subjects, transform) ==
    [subjects |-> subjects, transform |-> transform]

\* Mutant of DataLoader: an incomplete last batch is dropped.
DataLoaderDropLast(dataset, bs, nw) ==
    [dataset |-> dataset, batch_size |-> bs, num_workers |-> nw,
     shuffle |-> FALSE, drop_last |-> TRUE]

\* DataLoader(dataset, batch_size=..., num_workers=...): shuffle and
\* drop_last are not passed and default to False.
DataLoader(dataset, bs, nw) ==
    [dataset |-> dataset, batch_size |-> bs, num_workers |-> nw,
     shuffle |-> FALSE, drop_last |-> FALSE]

\* Mutant of SequentialSampler: the indices in another order.
ReversedSampler(n) == [i \in 1..n |-> n - i]

\* SequentialSampler: the indices 0 .. n-1 in order.
SequentialSampler(n) == [i \in 1..n |-> i - 1]

\* BatchSampler: the sampler's indices in consecutive groups of bs; an
\* incomplete last group is kept unless drop_last.
RECURSIVE BatchSampler(_, _, _)
BatchSampler(indices, bs, drop_last) ==
    IF Len(indices) = 0 THEN <<>>
    ELSE IF Len(indices) < bs
         THEN IF drop_last THEN <<>> ELSE <<indices>>
         ELSE <<SubSeq(indices, 1, bs)>>
              \o BatchSampler(SubSeq(indices, bs + 1, Len(indices)), bs, drop_last)

Workers == 0..(num_workers - 1)

\* The iterator before iter(training_loader) has run.
NoIterator ==
    [alive |-> FALSE, sampler_iter |-> <<>>, send_idx |-> 0, rcvd_idx |-> 0,
     task_info |-> <<>>, index_queues |-> [w \in Workers |-> <<>>],
     worker_queue_idx |-> 0, tasks_outstanding |-> 0]

\* _try_put_index: the next batch of indices goes to the next worker in
\* round-robin order; nothing happens once the sampler is exhausted.
\* task_info[idx + 1] is the entry of task idx.
TryPutIndex(i) ==
    IF i.sampler_iter = <<>> THEN i
    ELSE [i EXCEPT
            !.sampler_iter = Tail(@),
            !.index_queues[i.worker_queue_idx] =
                Append(@, [idx |-> i.send_idx, indices |-> Head(i.sampler_iter)]),
            !.task_info = Append(@, [worker_id |-> i.worker_queue_idx,
                                     done |-> FALSE, exc |-> FALSE,
                                     data |-> <<>>]),
            !.worker_queue_idx = (@ + 1) % num_workers,
            !.tasks_outstanding = @ + 1,
            !.send_idx = @ + 1]

\* The prefetch priming loop: n calls of _try_put_index.
RECURSIVE Prime(_, _)
Prime(i, n) == IF n = 0 THEN i ELSE Prime(TryPutIndex(i), n - 1)

\* iter(training_loader): the batches of the epoch are laid out and
\* 2 * num_workers of them are handed out ahead of time.
NewIterator(loader) ==
    LET sampler == SequentialSampler(Len(loader.dataset.subjects))
        fresh == [NoIterator EXCEPT
                    !.alive = TRUE,
                    !.sampler_iter =
                        BatchSampler(sampler, loader.batch_size, loader.drop_last)]
    IN Prime(fresh, 2 * loader.num_workers)

\* A worker process before it is started, and once it waits for a task.
IdleWorker(status, dataset) ==
    [status |-> status, dataset |-> dataset, task |-> <<>>, pos |-> 1,
     cur |-> <<>>, copy |-> <<>>, stage |-> 1, calls |-> <<>>, samples |-> <<>>]

\* default_collate over the samples of one batch: per entry, the values of
\* the samples in order; per image, its fields likewise.
Collate(samples) ==
    LET first == samples[1].entries
    IN [k \in DOMAIN first |->
          IF k \in ImageKeys
          THEN [f \in {"data", "path", "type"} |->
                   [n \in DOMAIN samples |-> samples[n].entries[k][f]]]
          ELSE [n \in DOMAIN samples |-> samples[n].entries[k]]]

\* Binding a name in the script's namespace.
Bind(e, name, value) ==
    [n \in DOMAIN e \cup {name} |-> IF n = name THEN value ELSE e[n]]

----------------------------------------------------------------------------
\* Objects of a worker process.  A reference is either a subject stored in
\* the worker's replica of the dataset, <<"stored", i>>, or the subject the
\* worker made for the sample it is fetching, <<"copy", 0>>.

Deref(wk, ref) ==
    IF ref[1] = "stored" THEN wk.dataset.subjects[ref[2]] ELSE wk.copy[1]

Store(wk, ref, subject) ==
    IF ref[1] = "stored"
    THEN [wk EXCEPT !.dataset.subjects[ref[2]] = subject]
    ELSE [wk EXCEPT !.copy = <<subject>>]

\* Mutant of DeepCopy: the stored object itself is handed on.
DeepCopyAlias(ref) == ref

\* copy.deepcopy(subject): a new object.
DeepCopy(ref) == <<"copy", 0>>

\* subject.load(): every image not yet read is read from its file.
Load(subject, t1_data, label_data) ==
    LET read == [t1 |-> t1_data, label |-> label_data]
    IN [subject EXCEPT !.entries =
          [k \in DOMAIN subject.entries |->
             IF k \in ImageKeys /\ ~subject.entries[k].loaded
             THEN [subject.entries[k] EXCEPT !.loaded = TRUE, !.data = read[k]]
             ELSE subject.entries[k]]]

NeedsLoad(subject) ==
    \E k \in ImageKeys \cap DOMAIN subject.entries : ~subject.entries[k].loaded

----------------------------------------------------------------------------
\* The main process: the statements of the script.

tallyVars == <<draw, tally>>

\* A statement starts: it is the one the script is at.
Run(stmt) == pc = stmt /\ log' = Append(log, stmt) /\ UNCHANGED tallyVars

\* A statement completes and the script moves on.
Goto(next) == pc' = next /\ raised' = raised

\* Mutant of Raise: the failing statement is caught and run again.
RaiseAndRetry(stmt) == pc' = stmt /\ raised' = stmt

\* A library call raises and nothing catches it: the script stops.
Raise(stmt) == pc' = "error" /\ raised' = stmt

loaderVars == <<it, worker_result_queue, worker>>
loopVars == <<reads, delivered, iterations>>

Init ==
    /\ pc = "subject_a"
    /\ env = <<>>
    /\ it = NoIterator
    /\ worker_result_queue = <<>>
    /\ worker = [w \in Workers |-> IdleWorker("unstarted", SubjectsDataset(<<>>, <<>>))]
    /\ log = <<>>
    /\ raised = "none"
    /\ reads = {}
    /\ delivered = <<>>
    /\ iterations = 0
    /\ draw = 0
    /\ tally = [none |-> 0, RandomAffine |-> 0, RandomElasticDeformation |-> 0]

\* A subject built from two image files: each path must exist.
ConstructFromFiles(name, next, t1_path, label_path, diagnosis) ==
    /\ Run(name)
    /\ \E found \in BOOLEAN :
         IF found
         THEN /\ env' = Bind(env, name,
                            Subject(ImageFromPath(INTENSITY, t1_path),
                                    ImageFromPath(LABEL, label_path),
                                    diagnosis))
              /\ Goto(next)
         ELSE /\ Raise(name)
              /\ UNCHANGED env
    /\ UNCHANGED <<loaderVars, loopVars>>

ConstructSubjectA ==
    ConstructFromFiles("subject_a", "subject_b",
                       "subject_a.nii.gz", "subject_a.nii", "positive")

ConstructSubjectB ==
    ConstructFromFiles("subject_b", "tensor_4d",
                       "subject_b_dicom_folder", "subject_b_seg.nrrd", "negative")

\* A statement that binds a name and cannot fail.
Assign(name, next, value) ==
    /\ Run(name)
    /\ env' = Bind(env, name, value)
    /\ Goto(next)
    /\ UNCHANGED <<loaderVars, loopVars>>

MakeTensor ==
    \E t \in RandData : Assign("tensor_4d", "subject_c", t)

ConstructSubjectC ==
    Assign("subject_c", "subjects_list",
           Subject(ImageFromTensor(INTENSITY, env.tensor_4d),
                   ImageFromTensor(LABEL, GreaterThanHalf(env.tensor_4d)),
                   "negative"))

MakeSubjectsList ==
    Assign("subjects_list", "rescale",
           <<env.subject_a, env.subject_b, env.subject_c>>)

MakeRescale == Assign("rescale", "spatial", RescaleIntensity(0, 1))

\* The spatial stage of the script.
Spatial ==
    OneOf(<< <<RandomAffine, WeightAffine>>,
             <<RandomElasticDeformation, WeightElastic>> >>,
          p_percent)

MakeSpatial == Assign("spatial", "transforms", Spatial)

MakeTransforms ==
    Assign("transforms", "transform", <<env.rescale, env.spatial>>)

MakeTransform == Assign("transform", "subjects_dataset", Compose(env.transforms))

MakeDataset ==
    Assign("subjects_dataset", "training_loader",
           SubjectsDataset(env.subjects_list, env.transform))

MakeLoader ==
    Assign("training_loader", "for",
           DataLoader(env.subjects_dataset, batch_size, num_workers))

\* for subjects_batch in training_loader: the iterator is created, the
\* worker processes are started with a replica of the dataset each.
MainIter ==
    /\ Run("for")
    /\ it' = NewIterator(env.training_loader)
    /\ worker' = [w \in Workers |->
                    IdleWorker("waiting", env.training_loader.dataset)]
    /\ Goto("next")
    /\ UNCHANGED <<env, worker_result_queue, loopVars>>

\* Mutant of TargetKey: the target is read from the field of the inputs.
TargetKeyOfInputs == "t1"

\* The batch field the statement at line 56 reads, and the one line 57 reads.
InputsKey == "t1"
TargetKey == "label"

\* The next batch reaches the loop, or the exception a worker caught is
\* raised again in the main process.
Deliver(i, r) ==
    /\ it' = TryPutIndex([i EXCEPT !.rcvd_idx = @ + 1])
    /\ log' = Append(log, "for")
    /\ IF r.exc
       THEN /\ Raise("for")
            /\ UNCHANGED <<env, loopVars>>
       ELSE /\ env' = Bind(env, "subjects_batch", r.data[1])
            /\ delivered' = delivered \o r.data[1]["t1"]["path"]
            /\ iterations' = iterations + 1
            /\ reads' = {}
            /\ Goto("inputs")

\* _next_data: the epoch ends when every task sent has been received;
\* otherwise the batch with index rcvd_idx is handed over, from the buffer
\* if it arrived early, else from the result queue; a batch that arrives
\* out of order is buffered.
MainNext ==
    /\ pc = "next"
    /\ UNCHANGED tallyVars
    /\ IF it.rcvd_idx >= it.send_idx
       THEN /\ it' = [it EXCEPT !.alive = FALSE]
            /\ worker' = [w \in Workers |-> [worker[w] EXCEPT !.status = "exited"]]
            /\ log' = Append(log, "for")
            /\ Goto("done")
            /\ UNCHANGED <<env, worker_result_queue, loopVars>>
       ELSE IF it.task_info[it.rcvd_idx + 1].done
       THEN /\ Deliver(it, [idx |-> it.rcvd_idx, exc |-> it.task_info[it.rcvd_idx + 1].exc,
                            data |-> it.task_info[it.rcvd_idx + 1].data])
            /\ UNCHANGED <<worker, worker_result_queue>>
       ELSE /\ worker_result_queue # <<>>
            /\ worker_result_queue' = Tail(worker_result_queue)
            /\ UNCHANGED worker
            /\ LET r == Head(worker_result_queue)
                   got == [it EXCEPT !.tasks_outstanding = @ - 1]
               IN IF r.idx # it.rcvd_idx
                  THEN /\ it' = [got EXCEPT !.task_info[r.idx + 1] =
                                    [@ EXCEPT !.done = TRUE, !.exc = r.exc,
                                              !.data = r.data]]
                       /\ UNCHANGED <<pc, env, log, raised, loopVars>>
                  ELSE Deliver(got, r)

\* inputs = subjects_batch['t1'][tio.DATA]
ReadInputs ==
    /\ Run("inputs")
    /\ IF InputsKey \in DOMAIN env.subjects_batch
       THEN /\ env' = Bind(env, "inputs", env.subjects_batch[InputsKey]["data"])
            /\ reads' = reads \cup {InputsKey}
            /\ Goto("target")
       ELSE /\ Raise("inputs")
            /\ UNCHANGED <<env, reads>>
    /\ UNCHANGED <<loaderVars, delivered, iterations>>

\* target = subjects_batch['label'][tio.DATA]
ReadTarget ==
    /\ Run("target")
    /\ IF TargetKey \in DOMAIN env.subjects_batch
       THEN /\ env' = Bind(env, "target", env.subjects_batch[TargetKey]["data"])
            /\ reads' = reads \cup {TargetKey}
            /\ Goto("next")
       ELSE /\ Raise("target")
            /\ UNCHANGED <<env, reads>>
    /\ UNCHANGED <<loaderVars, delivered, iterations>>

----------------------------------------------------------------------------
\* The worker processes.

mainVars == <<pc, env, log, raised, loopVars, tallyVars>>

\* The worker takes the next task from its index queue.
WorkerGetTask(w) ==
    /\ worker[w].status = "waiting"
    /\ it.index_queues[w] # <<>>
    /\ worker' = [worker EXCEPT ![w] =
                    [@ EXCEPT !.status = "fetching",
                              !.task = <<Head(it.index_queues[w])>>,
                              !.pos = 1, !.samples = <<>>]]
    /\ it' = [it EXCEPT !.index_queues[w] = Tail(@)]
    /\ UNCHANGED <<mainVars, worker_result_queue>>

\* The worker hands an exception to the main process and drops the task.
WorkerFail(w) ==
    /\ worker_result_queue' =
          Append(worker_result_queue,
                 [idx |-> worker[w].task[1].idx, exc |-> TRUE, data |-> <<>>])
    /\ worker' = [worker EXCEPT ![w] = IdleWorker("waiting", @.dataset)]

\* dataset[index]: the stored subject is deep-copied, the copy's images are
\* read, and the copy enters the pipeline.  Reading a file may fail.
WorkerGetItem(w) ==
    LET wk == worker[w]
        index == wk.task[1].indices[wk.pos]
        ref == DeepCopy(<<"stored", index + 1>>)
        subject == wk.dataset.subjects[index + 1]
    IN /\ wk.status = "fetching"
       /\ wk.cur = <<>>
       /\ wk.pos <= Len(wk.task[1].indices)
       /\ \E t1_data \in FileData, label_data \in FileData, readable \in BOOLEAN :
            IF readable \/ ~NeedsLoad(subject)
            THEN /\ worker' = [worker EXCEPT ![w] =
                       [Store(wk, ref, Load(subject, t1_data, label_data))
                          EXCEPT !.cur = ref, !.stage = 1, !.calls = <<>>]]
                 /\ UNCHANGED worker_result_queue
            ELSE WorkerFail(w)
       /\ UNCHANGED <<mainVars, it>>

\* The worker's state after one stage of the pipeline has run on the sample
\* with the draws u and v; after the last stage the sample joins the batch
\* being built.
AfterStage(wk, u, v) ==
    LET stages == wk.dataset.transform.transforms
        t == stages[wk.stage]
        out == ApplyTransform(t, Deref(wk, wk.cur), u, v)
        ref == IF Skipped(u, t.p) THEN wk.cur ELSE <<"copy", 0>>
        calls == Append(wk.calls, t.name)
        after == [Store(wk, ref, out) EXCEPT !.cur = ref, !.calls = calls]
    IN IF wk.stage < Len(stages)
       THEN [after EXCEPT !.stage = @ + 1]
       ELSE [after EXCEPT
               !.samples = Append(@, [subject |-> out, calls |-> calls]),
               !.cur = <<>>, !.stage = 1, !.pos = @ + 1]

\* One stage of the pipeline runs on the sample.
WorkerApply(w) ==
    /\ worker[w].status = "fetching"
    /\ worker[w].cur # <<>>
    /\ \E u \in Draws(25), v \in Draws(20) :
         worker' = [worker EXCEPT ![w] = AfterStage(worker[w], u, v)]
    /\ UNCHANGED <<mainVars, it, worker_result_queue>>

\* The samples of the task are collated into one batch and sent to the main
\* process.  Collation fails when the samples' shapes differ.
WorkerCollate(w) ==
    LET wk == worker[w]
        subjects == [n \in DOMAIN wk.samples |-> wk.samples[n].subject]
    IN /\ wk.status = "fetching"
       /\ wk.cur = <<>>
       /\ wk.pos > Len(wk.task[1].indices)
       /\ \E same_shape \in BOOLEAN :
            IF same_shape \/ Len(subjects) < 2
            THEN /\ worker_result_queue' =
                      Append(worker_result_queue,
                             [idx |-> wk.task[1].idx, exc |-> FALSE,
                              data |-> <<Collate(subjects)>>])
                 /\ worker' = [worker EXCEPT ![w] = IdleWorker("waiting", wk.dataset)]
            ELSE WorkerFail(w)
       /\ UNCHANGED <<mainVars, it>>

----------------------------------------------------------------------------
Next ==
    \/ ConstructSubjectA
    \/ ConstructSubjectB
    \/ MakeTensor
    \/ ConstructSubjectC
    \/ MakeSubjectsList
    \/ MakeRescale
    \/ MakeSpatial
    \/ MakeTransforms
    \/ MakeTransform
    \/ MakeDataset
    \/ MakeLoader
    \/ MainIter
    \/ MainNext
    \/ ReadInputs
    \/ ReadTarget
    \/ \E w \in Workers :
         \/ WorkerGetTask(w)
         \/ WorkerGetItem(w)
         \/ WorkerApply(w)
         \/ WorkerCollate(w)

Spec == Init /\ [][Next]_vars

\* Every process that can take a step eventually takes one.
FairSpec == Spec /\ WF_vars(Next)

----------------------------------------------------------------------------
\* The sampling run: the spatial stage is applied once for every pair of
\* percentiles its two random draws can fall in, all equally likely, and
\* the outcomes are counted.

Population == Percent * Percent

SampleSubject ==
    Subject(ImageFromTensor(INTENSITY, <<0, Scale>>),
            ImageFromTensor(LABEL, <<0, Scale>>),
            "negative")

\* What one application of the stage did, read off the subject's history.
Outcome(subject) ==
    IF subject.applied_transforms = <<>>
    THEN "none"
    ELSE subject.applied_transforms[Len(subject.applied_transforms)]

Sample ==
    /\ draw < Population
    /\ LET u == draw \div Percent
           v == draw % Percent
           out == ApplyTransform(Spatial, SampleSubject, u, v)
       IN tally' = [tally EXCEPT ![Outcome(out)] = @ + 1]
    /\ draw' = draw + 1
    /\ UNCHANGED <<pc, env, log, raised, loaderVars, loopVars>>

SpecOneOf == Init /\ [][Sample]_vars

----------------------------------------------------------------------------
\* Properties.

Started == {w \in Workers : worker[w].status # "unstarted"}

\* The subject a worker is taking through the pipeline.
Current(w) == Deref(worker[w], worker[w].cur)

StageNames == <<"RescaleIntensity", "OneOf">>
SpatialNames == {"RandomAffine", "RandomElasticDeformation"}

\* C1: every fetched subject went through the rescale stage first and the
\* spatial stage second, each exactly once; a subject still in the pipeline
\* has gone through an initial part of that order.
PipelineOrder ==
    \A w \in Workers :
        /\ \A n \in DOMAIN worker[w].samples :
              worker[w].samples[n].calls = StageNames
        /\ worker[w].cur # <<>> =>
              /\ Len(worker[w].calls) < Len(StageNames)
              /\ worker[w].calls = SubSeq(StageNames, 1, Len(worker[w].calls))

\* A worker has fetched all three subjects of the batch.
PipelineOrderWitness ==
    \E w \in Workers : Len(worker[w].samples) = 3

\* The spatial transforms recorded in a subject's history.
SpatialApplied(subject) ==
    {i \in DOMAIN subject.applied_transforms :
        subject.applied_transforms[i] \in SpatialNames}

\* C2: one pass through the pipeline applies at most one spatial transform
\* to a subject: none, RandomAffine alone, or RandomElasticDeformation alone.
OneOfExclusive ==
    \A w \in Workers :
        /\ \A n \in DOMAIN worker[w].samples :
              /\ Cardinality(SpatialApplied(worker[w].samples[n].subject)) <= 1
              /\ worker[w].samples[n].subject.applied_transforms \in
                    {<<"RescaleIntensity">>,
                     <<"RescaleIntensity", "RandomAffine">>,
                     <<"RescaleIntensity", "RandomElasticDeformation">>}
        /\ worker[w].cur # <<>> =>
              Cardinality(SpatialApplied(Current(w))) <= 1

\* One batch holds all three outcomes of the spatial stage.
OneOfExclusiveWitness ==
    \E w \in Workers :
        /\ Len(worker[w].samples) = 3
        /\ worker[w].samples[1].subject.applied_transforms = <<"RescaleIntensity">>
        /\ worker[w].samples[2].subject.applied_transforms =
              <<"RescaleIntensity", "RandomAffine">>
        /\ worker[w].samples[3].subject.applied_transforms =
              <<"RescaleIntensity", "RandomElasticDeformation">>

Applied == Population - tally.none

IsRescaled(x, y) ==
    IF \A i, j \in DOMAIN x : x[i] = x[j]
    THEN y = x
    ELSE /\ DOMAIN y = DOMAIN x
         /\ \A i \in DOMAIN y : 0 <= y[i] /\ y[i] <= Scale
         /\ \E i \in DOMAIN y : y[i] = 0
         /\ \E i \in DOMAIN y : y[i] = Scale
         /\ \A i, j \in DOMAIN x : x[i] < x[j] => y[i] < y[j]

\* The subject a worker holds after a pipeline step.
CurrentAfter(w) ==
    IF worker'[w].cur # <<>>
    THEN Deref(worker'[w], worker'[w].cur)
    ELSE worker'[w].samples[Len(worker'[w].samples)].subject

\* C4: the rescale stage leaves the label map and the diagnosis of a subject
\* as they were and rescales the t1 image.
RescaleOnlyScalar ==
    [][\A w \in Workers :
         (/\ worker[w].status = "fetching"
          /\ worker[w].cur # <<>>
          /\ worker[w].dataset.transform.transforms[worker[w].stage].name
                = "RescaleIntensity"
          /\ worker'[w] # worker[w])
         => /\ CurrentAfter(w).entries.label = Current(w).entries.label
            /\ CurrentAfter(w).entries.diagnosis = Current(w).entries.diagnosis
            /\ IsRescaled(Current(w).entries.t1.data,
                          CurrentAfter(w).entries.t1.data)]_vars

\* A subject has been rescaled whose t1 image changed and whose label map
\* holds values a rescaling would have changed.
RescaleOnlyScalarWitness ==
    \E w \in Workers :
        /\ worker[w].cur # <<>>
        /\ worker[w].calls = <<"RescaleIntensity">>
        /\ Current(w).entries.t1.data = <<0, Scale>>
        /\ Current(w).entries.label.data = <<Scale, 2 * Scale>>

LoopNames == {"subjects_batch", "inputs", "target"}

Bound(name) == name \in DOMAIN env

\* The entities are as the script constructed them.
AsConstructed ==
    /\ Bound("subjects_list") =>
          /\ env.subjects_list = <<env.subject_a, env.subject_b, env.subject_c>>
          /\ \A n \in DOMAIN env.subjects_list :
                /\ env.subjects_list[n].applied_transforms = <<>>
                /\ \A k \in ImageKeys :
                      env.subjects_list[n].entries[k].path # "" =>
                          ~env.subjects_list[n].entries[k].loaded
    /\ Bound("transform") => env.transform.transforms = <<env.rescale, env.spatial>>
    /\ Bound("subjects_dataset") =>
          /\ env.subjects_dataset.subjects = env.subjects_list
          /\ env.subjects_dataset.transform = env.transform
    /\ Bound("training_loader") =>
          /\ env.training_loader.dataset = env.subjects_dataset
          /\ env.training_loader.batch_size = batch_size
          /\ env.training_loader.num_workers = num_workers
    /\ \A w \in Started : worker[w].dataset = env.subjects_dataset

\* C5: what the script constructed is never changed afterwards, in the main
\* process or in a worker's replica: fetching and transforming a subject
\* acts on a copy.
NeverMutated ==
    /\ []AsConstructed
    /\ [][/\ \A n \in DOMAIN env \ LoopNames : Bound(n)' /\ env'[n] = env[n]
          /\ \A w \in Started : worker'[w].dataset = worker[w].dataset]_vars

\* The epoch is over, and a fetched subject was read from its files and
\* transformed on the way.
NeverMutatedWitness ==
    /\ pc = "done"
    /\ iterations = 1
    /\ env.subjects_batch.t1.data[1] = <<Scale, 0>>

\* The names the script binds.
ScriptNames ==
    {"subject_a", "subject_b", "tensor_4d", "subject_c", "subjects_list",
     "rescale", "spatial", "transforms", "transform", "subjects_dataset",
     "training_loader"} \cup LoopNames

\* C6: the loop body reads the data of 't1' into inputs and the data of
\* 'label' into target, never 'diagnosis'; it binds no other name, and
\* after the body inputs and target are those of the current batch.
LoopReads ==
    /\ reads \subseteq {"t1", "label"}
    /\ DOMAIN env \subseteq ScriptNames
    /\ pc = "target" => reads = {"t1"}
    /\ (pc \in {"target", "next", "done"} /\ iterations > 0) =>
          env.inputs = env.subjects_batch.t1.data
    /\ (pc \in {"next", "done"} /\ iterations > 0) =>
          /\ reads = {"t1", "label"}
          /\ env.target = env.subjects_batch.label.data

\* The body has run on a batch whose images and label maps differ.
LoopReadsWitness ==
    /\ pc = "next"
    /\ iterations = 1
    /\ env.inputs # env.target

\* C7: once a library call has raised, the script is stopped at the
\* statement where the error surfaced: that statement is the last one run,
\* and no step is taken afterwards.
ErrorsStopScript ==
    /\ [](raised # "none" => pc = "error" /\ log[Len(log)] = raised)
    /\ [](pc = "error" => raised # "none")
    /\ [][pc # "error"]_vars

\* A worker's failure has surfaced in the main process.
ErrorsStopScriptWitness ==
    pc = "error" /\ raised = "for" /\ ~Bound("subjects_batch")

SubjectKeys == {"t1", "label", "diagnosis"}

WellFormed(subject) ==
    /\ DOMAIN subject.entries = SubjectKeys
    /\ subject.entries.t1.type = INTENSITY
    /\ subject.entries.label.type = LABEL
    /\ subject.entries.diagnosis \in {"positive", "negative"}

\* C8: every subject of the script, stored or fetched, carries exactly the
\* entries t1 (a scalar image), label (a label map) and diagnosis; every
\* batch carries the same three fields, so the loop's reads never fail.
SubjectsWellFormed ==
    /\ \A name \in {"subject_a", "subject_b", "subject_c"} :
          Bound(name) => WellFormed(env[name])
    /\ Bound("subjects_list") =>
          \A n \in DOMAIN env.subjects_list : WellFormed(env.subjects_list[n])
    /\ \A w \in Workers :
          /\ \A n \in DOMAIN worker[w].samples :
                WellFormed(worker[w].samples[n].subject)
          /\ worker[w].cur # <<>> => WellFormed(Current(w))
    /\ Bound("subjects_batch") => DOMAIN env.subjects_batch = SubjectKeys
    /\ raised \notin {"inputs", "target"}

\* Both reads of the loop body were made on a batch of file-backed and
\* tensor-backed subjects.
SubjectsWellFormedWitness ==
    /\ pc = "next"
    /\ reads = {"t1", "label"}
    /\ env.subjects_batch.t1.path = <<"subject_a.nii.gz", "subject_b_dicom_folder", "">>

IsPrefix(s, t) == Len(s) <= Len(t) /\ s = SubSeq(t, 1, Len(s))

\* The t1 paths of the dataset's subjects, in index order.
DatasetOrder ==
    [n \in DOMAIN env.subjects_list |-> env.subjects_list[n].entries.t1.path]

\* C9: the subjects handed to the loop are the dataset's subjects in index
\* order, none twice; when the epoch ends every one has been handed over.
InOrderExactlyOnce ==
    /\ delivered # <<>> => IsPrefix(delivered, DatasetOrder)
    /\ pc = "done" => delivered = DatasetOrder

\* The epoch has ended with all four workers started and joined.
InOrderExactlyOnceWitness ==
    /\ pc = "done"
    /\ Len(delivered) = 3
    /\ \A w \in Workers : worker[w].status = "exited"

\* C10: unless a library call raises, the loop ends: its body has run
\* exactly once, on one batch of three subjects, the loader is exhausted
\* and its workers are gone.
LoopTerminates ==
    <>(\/ pc = "error"
       \/ /\ pc = "done"
          /\ iterations = 1
          /\ Len(env.subjects_batch.diagnosis) = 3
          /\ it.sampler_iter = <<>>
          /\ it.rcvd_idx = it.send_idx
          /\ \A w \in Workers : worker[w].status = "exited")

\* The script has ended after one iteration.
LoopTerminatesWitness ==
    pc = "done" /\ iterations = 1 /\ raised = "none"

====
